---- MODULE Spec2Model ----
(***************************************************************************)
(* Scribbly: the browser-side study wizard.  The model covers the session  *)
(* store of App (app.tsx), its persistence in local storage, the routes,   *)
(* the browser history of the current document, the Upload, Configure and  *)
(* Processing pages and the requests and timers they leave outstanding.    *)
(*                                                                         *)
(* One action is one run-to-completion step of the page: an event handler  *)
(* or a promise continuation, followed by the render it causes, the        *)
(* <Navigate> redirects of that render and the effects of that render     *)
(* (the save effect of App).                                               *)
(***************************************************************************)
EXTENDS Integers, Sequences, FiniteSets, TLC

(***************************************************************************)
(* Bounds of the model.                                                    *)
(***************************************************************************)
MaxReq == 2      \* processing requests started in one behaviour
MaxHist == 3     \* history entries of the current document that are kept
MaxPending == 2  \* uploads, requests and timers outstanding at one time

(***************************************************************************)
(* Values.                                                                 *)
(***************************************************************************)
NULL == [null |-> TRUE]              \* JavaScript null / undefined
NoEntry == [none |-> TRUE]           \* localStorage.getItem gives null
NullErr == "<null>"                  \* processingError / uploadError === null
EmptyObj == "{}"                     \* what JSON makes of a File object
Absent == "<absent>"                 \* a key that was not appended / is undefined

Files == {"a.pdf"}                   \* the documents the user picks or drops
\* the locations the user opens: the root and the four stage routes
Paths == {"/", "/upload", "/configure", "/processing", "/study"}
\* the choices made in the form of ConfigurePage: mode, count, focus
FormChoices == {<<"both", 15, "mixed">>}
\* the answers of /process with status 'success': flashcards, summary
SuccessAnswers == {<<2, TRUE>>, <<0, FALSE>>}
HeaderSteps == {1, 2}                \* the steps whose header item has an onClick

(***************************************************************************)
(* The session store (AppState) and its serialization.                     *)
(***************************************************************************)
InitialState ==
    [currentStep |-> 1, fileData |-> NULL, studyConfig |-> NULL,
     processingResults |-> NULL, isProcessing |-> FALSE]

\* JSON.stringify(appState): a File has no enumerable own property, so the
\* file member is written as {}; everything else is plain data.
Stringify(st) ==
    [json |-> [st EXCEPT !.fileData =
                  IF st.fileData = NULL THEN NULL
                  ELSE [st.fileData EXCEPT !.file = EmptyObj]]]

\* JSON.parse(savedState)
Parse(s) == s.json

SaveEffectDropsStep(st) == Stringify([st EXCEPT !.currentStep = 1])

\* the save effect: localStorage.setItem('scribbly-state', JSON.stringify(appState))
SaveEffect(st) == Stringify(st)

\* The effects of the first commit of App.  Each round runs the load effect
\* and then the save effect on the state of the first render (InitialState);
\* setAppState calls are queued and applied afterwards, the last one wins.
\* React.StrictMode in a development build runs the round twice.
MountRound(m) ==
    [storage |-> SaveEffect(InitialState),
     queued  |-> IF m.storage = NoEntry THEN m.queued
                 ELSE Append(m.queued, Parse(m.storage))]

MountEffects(stor, strictMode) ==
    LET r1 == MountRound([storage |-> stor, queued |-> << >>])
    IN  IF strictMode THEN MountRound(r1) ELSE r1

\* The store and the storage once the mount has settled: the queued updates
\* are applied and, the state object being a new one, the save effect runs.
Mounted(stor, strictMode) ==
    LET m == MountEffects(stor, strictMode)
    IN  IF m.queued = << >>
        THEN [state |-> InitialState, storage |-> m.storage]
        ELSE [state   |-> m.queued[Len(m.queued)],
              storage |-> SaveEffect(m.queued[Len(m.queued)])]

(***************************************************************************)
(* Store updates (the functions App passes to its pages).                  *)
(***************************************************************************)
updateFileDataNextStep(st, fileData) ==
    [st EXCEPT !.fileData = fileData, !.currentStep = st.currentStep + 1]

updateFileData(st, fileData) ==
    [st EXCEPT !.fileData = fileData, !.currentStep = 2]

updateStudyConfigKeepsStep(st, studyConfig) ==
    [st EXCEPT !.studyConfig = studyConfig]
updateStudyConfig(st, studyConfig) ==
    [st EXCEPT !.studyConfig = studyConfig, !.currentStep = 3]
startProcessingClearsResults(st) ==
    [st EXCEPT !.isProcessing = TRUE, !.processingResults = NULL]

startProcessing(st) == [st EXCEPT !.isProcessing = TRUE]

completeProcessingKeepsFlag(st, results) ==
    [st EXCEPT !.processingResults = results, !.currentStep = 4]

completeProcessingDropsResults(st, results) ==
    [st EXCEPT !.isProcessing = FALSE, !.currentStep = 4]

completeProcessing(st, results) ==
    [st EXCEPT !.processingResults = results, !.isProcessing = FALSE,
               !.currentStep = 4]

goToStepAny(st, step) == <<[st EXCEPT !.currentStep = step]>>
\* goToStep gives the setAppState updates it queues: one, or none
goToStep(st, step) ==
    IF step <= st.currentStep THEN <<[st EXCEPT !.currentStep = step]>>
    ELSE << >>

(***************************************************************************)
(* Failures of a request, as the catch blocks see them: error.code,        *)
(* error.response.status (0: no response), error.response.data.detail,     *)
(* error.response.data.error and error.message ("" stands for undefined).  *)
(***************************************************************************)
Err(code, status, detail, error, message) ==
    [code |-> code, status |-> status, detail |-> detail, error |-> error,
     message |-> message]

\* rejections of axios.post: a timeout and an HTTP error with a detail
AxiosErrors ==
    { Err("ECONNABORTED", 0, "", "", "timeout exceeded"),
      Err("ERR_BAD_REQUEST", 400, "bad mode", "", "status 400") }

\* response.data.error of an answer whose status is not 'success'
ResponseErrors == {"", "no text found"}

NotSuccessNoDefault(error) == Err("", 0, "", "", error)

\* throw new Error(response.data.error || 'Processing failed')
NotSuccess(error) ==
    Err("", 0, "", "", IF error # "" THEN error ELSE "Processing failed")

\* what the catch of handleStartProcessing may be handed
ProcessFailures == AxiosErrors \cup {NotSuccess(x) : x \in ResponseErrors}
ProcessingErrorMessageDetailFirst(e) ==
    IF e.code = "ECONNABORTED"
    THEN "Processing timed out. Your file may be too large or complex."
    ELSE IF e.detail # "" THEN e.detail
    ELSE IF e.status = 413 THEN "File too large. Please try a smaller file."
    ELSE IF e.status = 422 THEN "File format not supported or corrupted."
    ELSE IF e.status = 500
    THEN "Server error. Our AI services may be temporarily unavailable."
    ELSE IF e.error # "" THEN e.error
    ELSE IF e.message # "" THEN e.message
    ELSE "Processing failed. Please try again."

\* the message the catch of handleStartProcessing chooses
ProcessingErrorMessage(e) ==
    IF e.code = "ECONNABORTED"
    THEN "Processing timed out. Your file may be too large or complex."
    ELSE IF e.status = 413 THEN "File too large. Please try a smaller file."
    ELSE IF e.status = 422 THEN "File format not supported or corrupted."
    ELSE IF e.status = 500
    THEN "Server error. Our AI services may be temporarily unavailable."
    ELSE IF e.detail # "" THEN e.detail
    ELSE IF e.error # "" THEN e.error
    ELSE IF e.message # "" THEN e.message
    ELSE "Processing failed. Please try again."
UploadErrorMessageNoTimeout(e) ==
    IF e.detail # "" THEN e.detail
    ELSE "Upload failed. Please try again."

\* the message the catch of handleFileUpload chooses
UploadErrorMessage(e) ==
    IF e.detail # "" THEN e.detail
    ELSE IF e.code = "ECONNABORTED"
    THEN "Upload timed out. Please try a smaller file."
    ELSE "Upload failed. Please try again."

\* the FormData of handleStartProcessing; a value that is not a Blob is
\* appended as its string
FormFile(file) == IF file = EmptyObj THEN "[object Object]" ELSE file

ProcessForm(fileData, studyConfig) ==
    IF "flashcardCount" \in DOMAIN studyConfig /\ studyConfig.flashcardCount # 0
    THEN [file |-> FormFile(fileData.file),
          study_mode |-> studyConfig.studyMode,
          flashcard_count |-> studyConfig.flashcardCount,
          difficulty_focus |-> studyConfig.difficultyFocus]
    ELSE [file |-> FormFile(fileData.file),
          study_mode |-> studyConfig.studyMode,
          difficulty_focus |-> studyConfig.difficultyFocus]

\* the config handleSubmit of ConfigurePage builds from the form
FormConfig(studyMode, flashcardCount, difficultyFocus) ==
    IF studyMode # "summary"
    THEN [studyMode |-> studyMode, flashcardCount |-> flashcardCount,
          difficultyFocus |-> difficultyFocus]
    ELSE [studyMode |-> studyMode, difficultyFocus |-> difficultyFocus]

\* the FileData handleFileUpload builds from the answer of /api/upload
UploadedFileData(file) == [file |-> file, metadata |-> [filename |-> file]]

\* the results handleStartProcessing builds from a 'success' answer to
\* request id: the number of flashcards and whether there is a summary
Results(id, flashcards, summary) ==
    [of |-> id, flashcards |-> flashcards, summary |-> summary]

(***************************************************************************)
(* Routes.  RouteTarget is the `to` of the <Navigate> a path renders, or   *)
(* Absent when the path renders a page.                                    *)
(***************************************************************************)
RouteTargetBackToRoot(p, st) ==
    CASE p = "/upload"     -> Absent
      [] p = "/configure"  -> IF st.fileData # NULL THEN Absent ELSE "/"
      [] p = "/processing" -> IF st.studyConfig # NULL /\ st.fileData # NULL
                              THEN Absent ELSE "/"
      [] p = "/study"      -> IF st.processingResults # NULL THEN Absent
                              ELSE "/"
      [] p = "/"           -> IF st.currentStep = 1 THEN "/upload"
                              ELSE IF st.currentStep = 2 THEN "/configure"
                              ELSE IF st.currentStep = 3 THEN "/processing"
                              ELSE IF st.currentStep = 4 THEN "/study"
                              ELSE "/upload"
      [] OTHER             -> "/"

RouteTarget(p, st) ==
    CASE p = "/upload"     -> Absent
      [] p = "/configure"  -> IF st.fileData # NULL THEN Absent ELSE "/upload"
      [] p = "/processing" -> IF st.studyConfig # NULL /\ st.fileData # NULL
                              THEN Absent ELSE "/upload"
      [] p = "/study"      -> IF st.processingResults # NULL THEN Absent
                              ELSE "/upload"
      [] p = "/"           -> IF st.currentStep = 1 THEN "/upload"
                              ELSE IF st.currentStep = 2 THEN "/configure"
                              ELSE IF st.currentStep = 3 THEN "/processing"
                              ELSE IF st.currentStep = 4 THEN "/study"
                              ELSE "/upload"
      [] OTHER             -> "/"

\* history.pushState: the forward entries are dropped, the new entry becomes
\* the current one; only the newest MaxHist entries are kept.
Push(h, i, p) ==
    LET s == Append(SubSeq(h, 1, i), p)
    IN  IF Len(s) > MaxHist
        THEN [hist |-> SubSeq(s, Len(s) - MaxHist + 1, Len(s)), idx |-> MaxHist]
        ELSE [hist |-> s, idx |-> Len(s)]

\* Follow the <Navigate> redirects from the current entry until a page renders.
RECURSIVE Follow(_, _, _)
Follow(h, i, st) ==
    LET t == RouteTarget(h[i], st)
    IN  IF t = Absent THEN [hist |-> h, idx |-> i]
        ELSE LET n == Push(h, i, t) IN Follow(n.hist, n.idx, st)

(***************************************************************************)
(* State.                                                                  *)
(***************************************************************************)
VARIABLES
    appState,   \* the store of App (useState<AppState>)
    storage,    \* the entry 'scribbly-state' of localStorage, or NoEntry
    strict,     \* TRUE in a development build: StrictMode doubles the effects
    hist,       \* paths of the history entries of the current document
    idx,        \* the current entry; hist[idx] is the location
    proc,       \* ProcessingPage: processingStep, processingProgress, processingError
    up,         \* UploadPage: isUploading, uploadError
    requests,   \* POST /process calls that have not been answered
    timers,     \* setTimeout callbacks of handleStartProcessing that have not run
    uploads,    \* POST /api/upload calls that have not been answered
    nextReq,    \* number of the next processing request
    study,      \* the state of StudyPage: view, card index, progress tags
    form,       \* the form state of ConfigurePage
    selected    \* the file handleFileUpload was last called with, while an
                \* upload is outstanding

vars == <<appState, storage, strict, hist, idx, proc, up, requests, timers,
          uploads, nextReq, study, form, selected>>

FreshProc == [step |-> "ready", progress |-> 0, error |-> NullErr]
FreshUp == [isUploading |-> FALSE, uploadError |-> NullErr]
NoFile == "<none>"                   \* no upload is outstanding

path == hist[idx]

\* the page the location renders
Page ==
    CASE path = "/upload"     -> "upload"
      [] path = "/configure"  -> "configure"
      [] path = "/processing" -> "processing"
      [] path = "/study"      -> "study"
      [] OTHER                -> "none"

Pending == Cardinality(uploads) + Cardinality(requests) + Cardinality(timers)

Truthy(s) == s \notin {NullErr, ""}

\* the status branches of ProcessingPage's render
View ==
    IF ~appState.isProcessing /\ ~Truthy(proc.error) THEN "ready"
    ELSE IF appState.isProcessing THEN "progress"
    ELSE IF Truthy(proc.error) THEN "error"
    ELSE "none"

\* ConfigurePage: useState initial values, taken from currentConfig
FreshForm(currentConfig) ==
    [studyMode |-> IF currentConfig # NULL THEN currentConfig.studyMode
                   ELSE "both",
     flashcardCount |->
         IF currentConfig # NULL /\ "flashcardCount" \in DOMAIN currentConfig
            /\ currentConfig.flashcardCount # 0
         THEN currentConfig.flashcardCount ELSE 15,
     difficultyFocus |-> IF currentConfig # NULL
                         THEN currentConfig.difficultyFocus ELSE "mixed"]

\* the form after a render at newPath: a ConfigurePage that is mounted
\* reads currentConfig, a mounted one keeps its state
FormAfter(newPath, mounts, currentConfig) ==
    IF newPath # "/configure" THEN FreshForm(NULL)
    ELSE IF mounts THEN FreshForm(currentConfig)
    ELSE form

\* StudyPage: useState initial values (studyProgress {} has no key)
FreshStudy == [view |-> "overview", index |-> 0, progress |-> << >>]

\* card k of the deck (k in 1..flashcards) is results.flashcards[k - 1]
hasFlashcards(results) == results.flashcards > 0
hasSummary(results) == results.summary

\* the effect of StudyPage: every card of the deck is tagged 'unseen'
InitialProgress(results) == [k \in 1..results.flashcards |-> "unseen"]

InitEffect(st, results) ==
    IF hasFlashcards(results)
    THEN [st EXCEPT !.progress = InitialProgress(results)]
    ELSE st

\* the state of StudyPage after a render at newPath with the given results:
\* a page that is mounted starts fresh and runs its effect; a mounted page
\* runs the effect again when it is handed new results
StudyAfter(newPath, mounts, results) ==
    IF newPath # "/study" THEN FreshStudy
    ELSE IF mounts THEN InitEffect(FreshStudy, results)
    ELSE IF results # appState.processingResults
    THEN InitEffect(study, results)
    ELSE study

\* a request whose page has been unmounted: its setState calls do nothing
Stale(rs) == {[r EXCEPT !.live = FALSE] : r \in rs}

Init ==
    /\ appState = InitialState
    /\ storage = SaveEffect(InitialState)
    /\ strict \in BOOLEAN
    /\ hist = <<"/", "/upload">>
    /\ idx = 2
    /\ proc = FreshProc
    /\ up = FreshUp
    /\ requests = {}
    /\ timers = {}
    /\ uploads = {}
    /\ nextReq = 1
    /\ study = FreshStudy
    /\ form = FreshForm(NULL)
    /\ selected = NoFile

\* The render that follows a step: the store becomes newState, the save
\* effect writes it, the redirects of the routes are followed; when the
\* location changes the page is unmounted and the new one starts fresh.
Commit(newState, newProc, newUp, newRequests, newUploads) ==
    LET n == Follow(hist, idx, newState)
        moved == n.hist[n.idx] # path
    IN  /\ appState' = newState
        /\ storage' = SaveEffect(newState)
        /\ hist' = n.hist
        /\ idx' = n.idx
        /\ proc' = IF moved THEN FreshProc ELSE newProc
        /\ up' = IF moved THEN FreshUp ELSE newUp
        /\ requests' = IF moved THEN Stale(newRequests) ELSE newRequests
        /\ uploads' = IF moved THEN Stale(newUploads) ELSE newUploads
        /\ study' = StudyAfter(n.hist[n.idx], moved, newState.processingResults)
        /\ form' = FormAfter(n.hist[n.idx], moved, newState.studyConfig)
        /\ selected' = IF newUploads = {} THEN NoFile ELSE selected

(***************************************************************************)
(* Navigation.                                                             *)
(***************************************************************************)
\* A document load at path p (typed URL, refresh, window.location.href):
\* the old document with its requests and timers is gone, App mounts with
\* InitialState, the first render follows its redirects, then the mount
\* effects run and the restored state is rendered.
LoadAt(p) ==
    LET first == Follow(<<p>>, 1, InitialState)
        m == Mounted(storage, strict)
        n == Follow(first.hist, first.idx, m.state)
    IN  /\ appState' = m.state
        /\ storage' = m.storage
        /\ hist' = n.hist
        /\ idx' = n.idx
        /\ proc' = FreshProc
        /\ up' = FreshUp
        /\ requests' = {}
        /\ timers' = {}
        /\ uploads' = {}
        /\ study' = StudyAfter(n.hist[n.idx], TRUE, m.state.processingResults)
        /\ form' = FormAfter(n.hist[n.idx], TRUE, m.state.studyConfig)
        /\ selected' = NoFile
        /\ UNCHANGED <<strict, nextReq>>

Load(p) == LoadAt(p)

\* history traversal inside the document (popstate) to entry i
GoTo(i) ==
    LET n == Follow(hist, i, appState)
        moved == hist[i] # path
    IN  /\ hist' = n.hist
        /\ idx' = n.idx
        /\ proc' = IF moved THEN FreshProc ELSE proc
        /\ up' = IF moved THEN FreshUp ELSE up
        /\ requests' = IF moved THEN Stale(requests) ELSE requests
        /\ uploads' = IF moved THEN Stale(uploads) ELSE uploads
        /\ study' = StudyAfter(n.hist[n.idx], moved, appState.processingResults)
        /\ form' = FormAfter(n.hist[n.idx], moved, appState.studyConfig)
        /\ UNCHANGED <<appState, storage, strict, timers, nextReq, selected>>

\* the browser's back/forward buttons and history menu
BrowserGo(i) ==
    /\ i \in 1..Len(hist)
    /\ i # idx
    /\ GoTo(i)

\* window.history.back() of "Back to Upload" (ConfigurePage) and of
\* "Back to Configuration" (ProcessingPage, ready and error views).  From the
\* first entry of the document it leaves the document: the entry before it is
\* loaded, whatever it is.
HistoryBack ==
    /\ \/ Page = "configure"
       \/ Page = "processing" /\ View \in {"ready", "error"}
    /\ \/ idx > 1 /\ GoTo(idx - 1)
       \/ idx = 1 /\ \E p \in Paths : LoadAt(p)

(***************************************************************************)
(* Header of App.                                                          *)
(***************************************************************************)
\* resetSession: localStorage.removeItem runs in the handler, the save
\* effect of the render that follows writes the entry again
ResetSession ==
    /\ Commit(InitialState, proc, up, requests, uploads)
    /\ UNCHANGED <<strict, timers, nextReq>>

GoToStep(k) ==
    /\ LET q == goToStep(appState, k)
       IN  IF q = << >>
           THEN UNCHANGED <<appState, storage, hist, idx, proc, up, requests,
                            uploads, study, form, selected>>
           ELSE Commit(q[1], proc, up, requests, uploads)
    /\ UNCHANGED <<strict, timers, nextReq>>

(***************************************************************************)
(* UploadPage.                                                             *)
(***************************************************************************)
handleFileUpload(file) ==
    /\ [file |-> file, live |-> TRUE] \notin uploads
    /\ Pending < MaxPending
    /\ up' = [isUploading |-> TRUE, uploadError |-> NullErr]
    /\ uploads' = uploads \cup {[file |-> file, live |-> TRUE]}
    /\ selected' = file
    /\ UNCHANGED <<appState, storage, strict, hist, idx, proc, requests,
                   timers, nextReq, study, form>>

\* the file input: rendered when there is no file and no upload is running
ChooseFile(file) ==
    /\ Page = "upload"
    /\ appState.fileData = NULL
    /\ ~up.isUploading
    /\ handleFileUpload(file)

\* the drop zone: rendered when there is no file
DropFile(file) ==
    /\ Page = "upload"
    /\ appState.fileData = NULL
    /\ handleFileUpload(file)

UploadSucceeds(u) ==
    /\ u \in uploads
    /\ Commit(updateFileData(appState, UploadedFileData(u.file)), proc,
              IF u.live THEN [up EXCEPT !.isUploading = FALSE] ELSE up,
              requests, uploads \ {u})
    /\ UNCHANGED <<strict, timers, nextReq>>

UploadFailsKeepsFlag(u, e) ==
    /\ u \in uploads
    /\ uploads' = uploads \ {u}
    /\ up' = IF u.live
             THEN [up EXCEPT !.uploadError = UploadErrorMessage(e)]
             ELSE up
    /\ selected' = IF uploads \ {u} = {} THEN NoFile ELSE selected
    /\ UNCHANGED <<appState, storage, strict, hist, idx, proc, requests,
                   timers, nextReq, study, form>>

UploadFails(u, e) ==
    /\ u \in uploads
    /\ uploads' = uploads \ {u}
    /\ up' = IF u.live
             THEN [isUploading |-> FALSE, uploadError |-> UploadErrorMessage(e)]
             ELSE up
    /\ selected' = IF uploads \ {u} = {} THEN NoFile ELSE selected
    /\ UNCHANGED <<appState, storage, strict, hist, idx, proc, requests,
                   timers, nextReq, study, form>>

\* "Upload Different File": setUploadError(null); onFileUploaded(null)
UploadDifferentFile ==
    /\ Page = "upload"
    /\ appState.fileData # NULL
    /\ Commit(updateFileData(appState, NULL), proc,
              [up EXCEPT !.uploadError = NullErr], requests, uploads)
    /\ UNCHANGED <<strict, timers, nextReq>>

\* "Continue": window.location.href = '/configure'
ContinueToConfigure ==
    /\ Page = "upload"
    /\ appState.fileData # NULL
    /\ LoadAt("/configure")

(***************************************************************************)
(* ConfigurePage.                                                          *)
(***************************************************************************)
\* the option cards of the form
StudyModes == {"flashcards", "summary", "both"}
FlashcardCounts == {5, 10, 15, 20, 25, 30}
DifficultyFocuses == {"mixed", "advanced"}

setStudyMode(studyMode) ==
    /\ Page = "configure"
    /\ form' = [form EXCEPT !.studyMode = studyMode]
    /\ UNCHANGED <<appState, storage, strict, hist, idx, proc, up, requests,
                   timers, uploads, nextReq, study, selected>>

\* the count options are rendered unless the mode is 'summary'
setFlashcardCount(count) ==
    /\ Page = "configure"
    /\ form.studyMode # "summary"
    /\ form' = [form EXCEPT !.flashcardCount = count]
    /\ UNCHANGED <<appState, storage, strict, hist, idx, proc, up, requests,
                   timers, uploads, nextReq, study, selected>>

setDifficultyFocus(focus) ==
    /\ Page = "configure"
    /\ form' = [form EXCEPT !.difficultyFocus = focus]
    /\ UNCHANGED <<appState, storage, strict, hist, idx, proc, up, requests,
                   timers, uploads, nextReq, study, selected>>

\* Math.round(n / d) for n >= 0, d > 0
Round(n, d) == (2 * n + d) \div (2 * d)

getEstimatedTimeFrom20(complexity, studyMode, flashcardCount) ==
    LET baseTime == IF complexity = "high" THEN 180
                    ELSE IF complexity = "medium" THEN 120 ELSE 90
        modeTenths == IF studyMode = "both" THEN 15 ELSE 10
        countTenths == IF flashcardCount >= 20 THEN 13 ELSE 10
    IN  Round(baseTime * modeTenths * countTenths, 100)

\* getEstimatedTime, the multipliers 1.5 and 1.3 counted in tenths (the
\* products of the doubles round to the same integers)
getEstimatedTime(complexity, studyMode, flashcardCount) ==
    LET baseTime == IF complexity = "high" THEN 180
                    ELSE IF complexity = "medium" THEN 120 ELSE 90
        modeTenths == IF studyMode = "both" THEN 15 ELSE 10
        countTenths == IF flashcardCount > 20 THEN 13 ELSE 10
    IN  Round(baseTime * modeTenths * countTenths, 100)

\* handleSubmit of a form that holds the three given values
ConfigSubmit(studyMode, flashcardCount, difficultyFocus) ==
    /\ Page = "configure"
    /\ form = [studyMode |-> studyMode, flashcardCount |-> flashcardCount,
               difficultyFocus |-> difficultyFocus]
    /\ Commit(updateStudyConfig(appState,
                  FormConfig(studyMode, flashcardCount, difficultyFocus)),
              proc, up, requests, uploads)
    /\ UNCHANGED <<strict, timers, nextReq>>

(***************************************************************************)
(* ProcessingPage.                                                         *)
(***************************************************************************)
\* the ids of processingSteps, in the order of the indicator
ProcessingSteps == <<"extracting", "analyzing", "generating", "finalizing">>

\* position of a phase in the indicator (getCurrentStepIndex + 1; 0: none)
PhaseIndex(step) ==
    IF \E i \in 1..Len(ProcessingSteps) : ProcessingSteps[i] = step
    THEN CHOOSE i \in 1..Len(ProcessingSteps) : ProcessingSteps[i] = step
    ELSE 0

SetCall(step, progress) == [step |-> step, progress |-> progress]

\* the setProcessingStep / setProcessingProgress calls of
\* handleStartProcessing: before the await, after a 'success' answer, and
\* on the way to the end of the catch
StartCalls == <<SetCall("extracting", 10), SetCall("analyzing", 25)>>
SuccessCallsNoFinalizing == <<SetCall("generating", 75)>>

SuccessCalls == <<SetCall("generating", 75), SetCall("finalizing", 100)>>
FailureCalls(e) ==
    IF e \in AxiosErrors THEN <<SetCall("ready", 0)>>
    ELSE <<SetCall("generating", 75), SetCall("ready", 0)>>

\* React 18 (createRoot) batches the updates queued in one run of a handler
\* or continuation: the render that follows sees the last value of each
Batched(calls) == calls[Len(calls)]

\* handleStartProcessing up to the await of axios.post; it is the onClick
\* of "Start Processing" (ready view) and of "Retry Processing" (error view)
StartProcessing ==
    /\ Page = "processing"
    /\ View \in {"ready", "error"}
    /\ nextReq <= MaxReq
    /\ Pending < MaxPending
    /\ Commit(startProcessing(appState),
              [step |-> Batched(StartCalls).step,
               progress |-> Batched(StartCalls).progress,
               error |-> NullErr], up,
              requests \cup
                {[id |-> nextReq, live |-> TRUE,
                  form |-> ProcessForm(appState.fileData, appState.studyConfig)]},
              uploads)
    /\ nextReq' = nextReq + 1
    /\ UNCHANGED <<strict, timers>>

\* the answer has status 'success': the results are built and
\* onProcessingComplete is scheduled one second later
ProcessSucceeds(r, flashcards, summary) ==
    /\ r \in requests
    /\ requests' = requests \ {r}
    /\ proc' = IF r.live
               THEN [proc EXCEPT !.step = Batched(SuccessCalls).step,
                                 !.progress = Batched(SuccessCalls).progress]
               ELSE proc
    /\ timers' = timers \cup {Results(r.id, flashcards, summary)}
    /\ UNCHANGED <<appState, storage, strict, hist, idx, up, uploads, nextReq,
                   study, form, selected>>

\* the request is rejected, or its answer has another status: the catch
ProcessFails(r, e) ==
    /\ r \in requests
    /\ requests' = requests \ {r}
    /\ proc' = IF r.live
               THEN [step |-> Batched(FailureCalls(e)).step,
                     progress |-> Batched(FailureCalls(e)).progress,
                     error |-> ProcessingErrorMessage(e)]
               ELSE proc
    /\ UNCHANGED <<appState, storage, strict, hist, idx, up, timers, uploads,
                   nextReq, study, form, selected>>

\* the setTimeout callback: onProcessingComplete(results)
TimerFires(t) ==
    /\ t \in timers
    /\ timers' = timers \ {t}
    /\ Commit(completeProcessing(appState, t), proc, up, requests, uploads)
    /\ UNCHANGED <<strict, nextReq>>

(***************************************************************************)
(* StudyPage.  (isFlipped only turns the card over and is left out.)       *)
(***************************************************************************)
RateActions == {"again", "hard", "good", "easy"}

\* which of the returns of StudyPage's render is taken
StudyRender ==
    IF study.view = "overview" THEN "overview"
    ELSE IF study.view = "flashcards"
            /\ hasFlashcards(appState.processingResults) THEN "flashcards"
    ELSE IF study.view = "summary" /\ hasSummary(appState.processingResults)
    THEN "summary"
    ELSE "nothing"

\* setCurrentView of "Start Flashcards", "View Summary" and the back buttons
setCurrentView(view) ==
    /\ study' = [study EXCEPT !.view = view]
    /\ UNCHANGED <<appState, storage, strict, hist, idx, proc, up, requests,
                   timers, uploads, nextReq, form, selected>>

StartFlashcards ==
    /\ Page = "study"
    /\ StudyRender = "overview"
    /\ hasFlashcards(appState.processingResults)
    /\ setCurrentView("flashcards")

ViewSummary ==
    /\ Page = "study"
    /\ StudyRender = "overview"
    /\ hasSummary(appState.processingResults)
    /\ setCurrentView("summary")

BackToOverview ==
    /\ Page = "study"
    /\ StudyRender \in {"flashcards", "summary"}
    /\ setCurrentView("overview")

RatedTagMastered(action) == "mastered"

\* the tag a rating gives
RatedTag(action) ==
    IF action \in {"again", "hard"} THEN "learning" ELSE "mastered"

\* newProgress = {...studyProgress}; newProgress[id] = tag
WithTag(progress, k, tag) ==
    [c \in DOMAIN progress \cup {k} |-> IF c = k THEN tag ELSE progress[c]]

\* the rating buttons of the flashcard view
handleCardAction(action) ==
    /\ Page = "study"
    /\ StudyRender = "flashcards"
    /\ study' = [study EXCEPT
                   !.progress = WithTag(study.progress, study.index + 1,
                                        RatedTag(action)),
                   !.index = IF study.index
                                  < appState.processingResults.flashcards - 1
                             THEN study.index + 1 ELSE study.index]
    /\ UNCHANGED <<appState, storage, strict, hist, idx, proc, up, requests,
                   timers, uploads, nextReq, form, selected>>

\* "Reset" and "Study Again"
resetCards ==
    /\ Page = "study"
    /\ StudyRender = "flashcards"
    /\ study' = [InitEffect(study, appState.processingResults)
                   EXCEPT !.index = 0]
    /\ UNCHANGED <<appState, storage, strict, hist, idx, proc, up, requests,
                   timers, uploads, nextReq, form, selected>>

Next ==
    \/ \E p \in Paths : Load(p)
    \/ \E i \in 1..MaxHist : BrowserGo(i)
    \/ HistoryBack
    \/ ResetSession
    \/ \E k \in HeaderSteps : GoToStep(k)
    \/ \E f \in Files : ChooseFile(f)
    \/ \E f \in Files : DropFile(f)
    \/ \E u \in uploads : UploadSucceeds(u)
    \/ \E u \in uploads, e \in AxiosErrors : UploadFails(u, e)
    \/ UploadDifferentFile
    \/ ContinueToConfigure
    \/ \E c \in FormChoices : ConfigSubmit(c[1], c[2], c[3])
    \/ StartProcessing
    \/ \E r \in requests, a \in SuccessAnswers : ProcessSucceeds(r, a[1], a[2])
    \/ \E r \in requests, e \in ProcessFailures : ProcessFails(r, e)
    \/ \E t \in timers : TimerFires(t)

Spec == Init /\ [][Next]_vars

\* the wizard together with the steps the user takes inside the Study page
StudyNext ==
    \/ Next
    \/ StartFlashcards
    \/ ViewSummary
    \/ BackToOverview
    \/ \E a \in RateActions : handleCardAction(a)
    \/ resetCards

StudySpec == Init /\ [][StudyNext]_vars

(***************************************************************************)
(* Properties of every settled state, used to validate the model.          *)
(***************************************************************************)
\* the location renders a page, the storage entry mirrors the store
Settled ==
    /\ RouteTarget(path, appState) = Absent
    /\ storage = SaveEffect(appState)
    /\ Page # "processing" => proc = FreshProc /\ \A r \in requests : ~r.live
    /\ Page # "upload" => up = FreshUp /\ \A u \in uploads : ~u.live

\* a document load: a typed URL or refresh, "Continue", or history.back()
\* out of the document
IsLoad == \E p \in Paths : LoadAt(p)

\* a request of the mounted ProcessingPage ends in failure
LiveFailure ==
    \E r \in requests, e \in ProcessFailures : r.live /\ ProcessFails(r, e)

(***************************************************************************)
(* C1.  Whenever a processing request ends in failure, the Processing      *)
(* stage then shows the failure view with the error message, not the       *)
(* ready view and not the in-progress view.                                *)
(***************************************************************************)
C1_FailureShowsErrorView ==
    [][LiveFailure => (Page' = "processing" /\ View' = "error")]_vars

(***************************************************************************)
(* C2.  After a failed processing attempt the user can retry without       *)
(* resetting the session: once the attempt has failed the page offers an   *)
(* action that starts a new request (the "Retry Processing" button of the  *)
(* error view, or "Start Processing" of the ready view).                   *)
(***************************************************************************)
StartOffered == Page = "processing" /\ View \in {"ready", "error"}

C2_RetryAfterFailure == [][LiveFailure => StartOffered']_vars

(***************************************************************************)
(* C3.  If the store's isProcessing flag is true then a processing request *)
(* or its pending completion callback is outstanding.                      *)
(***************************************************************************)
C3_ProcessingFlagHasRequest ==
    appState.isProcessing => (requests # {} \/ timers # {})

(***************************************************************************)
(* C4.  Persist then restore is a round trip: after a reload the store     *)
(* settles in the state that was persisted before the reload.              *)
(***************************************************************************)
C4_RestoreRoundTrip ==
    [][(IsLoad /\ storage # NoEntry) => appState' = Parse(storage)]_vars

(***************************************************************************)
(* C5.  Every request sent to the processing endpoint carries the file the *)
(* user uploaded together with the stored study mode, flashcard count      *)
(* (when set) and difficulty focus.                                        *)
(***************************************************************************)
CarriesSession(formData, st) ==
    /\ formData.file \in Files
    /\ formData.file = st.fileData.metadata.filename
    /\ formData.study_mode = st.studyConfig.studyMode
    /\ formData.difficulty_focus = st.studyConfig.difficultyFocus
    /\ IF "flashcardCount" \in DOMAIN st.studyConfig
       THEN /\ "flashcard_count" \in DOMAIN formData
            /\ formData.flashcard_count = st.studyConfig.flashcardCount
       ELSE "flashcard_count" \notin DOMAIN formData

C5_RequestCarriesFileAndConfig ==
    [][StartProcessing =>
          \E r \in requests' : r.id = nextReq /\ CarriesSession(r.form, appState)]_vars

(***************************************************************************)
(* C6.  goToStep(k) sets currentStep to k when k <= currentStep and leaves *)
(* the store unchanged when k > currentStep, so it never increases         *)
(* currentStep.                                                            *)
(***************************************************************************)
C6_GoToStepBackwardOnly ==
    [][\A k \in HeaderSteps :
          GoToStep(k) =>
            /\ IF k <= appState.currentStep
               THEN appState' = [appState EXCEPT !.currentStep = k]
               ELSE appState' = appState
            /\ appState'.currentStep <= appState.currentStep]_vars

\* goToStep(1) has gone back from step 2 or later: the file is still there
C6_WentBack == appState.currentStep = 1 /\ appState.fileData # NULL

(***************************************************************************)
(* C7.  Control flow is strictly linear: any transition that increases     *)
(* currentStep increases it by exactly 1.                                  *)
(***************************************************************************)
C7_StepsAdvanceByOne ==
    [][appState'.currentStep > appState.currentStep
          => appState'.currentStep = appState.currentStep + 1]_vars

(***************************************************************************)
(* C8.  Completing upload stores fileData and sets currentStep to 2,       *)
(* completing configure stores studyConfig and sets currentStep to 3,      *)
(* completing processing stores processingResults and sets currentStep to  *)
(* 4.  The original claim adds that currentStep is greater after each      *)
(* write than before it (C8_StageWritesAdvance); what holds is that it is  *)
(* greater exactly when it was below the value written                     *)
(* (C8_StageWritesSetStep).                                                *)
(***************************************************************************)
StageWrites(advances) ==
    /\ \A u \in uploads :
          UploadSucceeds(u) =>
            /\ appState'.fileData = UploadedFileData(u.file)
            /\ appState'.currentStep = 2
            /\ advances
    /\ \A c \in FormChoices :
          ConfigSubmit(c[1], c[2], c[3]) =>
            /\ appState'.studyConfig = FormConfig(c[1], c[2], c[3])
            /\ appState'.currentStep = 3
            /\ advances
    /\ \A t \in timers :
          TimerFires(t) =>
            /\ appState'.processingResults = t
            /\ appState'.currentStep = 4
            /\ advances

C8_StageWritesAdvance ==
    [][StageWrites(appState'.currentStep > appState.currentStep)]_vars

C8_StageWritesSetStep ==
    [][/\ StageWrites(TRUE)
       /\ \A k \in 2..4 :
            (appState'.currentStep = k /\ appState.currentStep < k)
               => appState'.currentStep > appState.currentStep]_vars

\* all three stages have written: the session is at step 4 with its data
C8_AllStagesWritten ==
    /\ appState.currentStep = 4
    /\ appState.fileData # NULL
    /\ appState.studyConfig # NULL
    /\ appState.processingResults # NULL

(***************************************************************************)
(* C9.  Whenever the processing endpoint answers a request with status     *)
(* 'success', the store eventually holds the results built from that       *)
(* answer, isProcessing is false and currentStep is 4.  The original claim *)
(* (C9_SuccessEventuallyCompletes) fails when the document is unloaded     *)
(* before the completion timer runs; what holds (C9_SuccessCompletes-      *)
(* UnlessUnloaded) is that the timer of every such answer eventually goes  *)
(* away, and goes away either by completing the store or by a load.        *)
(***************************************************************************)
AllResults == {Results(i, a[1], a[2]) : i \in 1..MaxReq, a \in SuccessAnswers}

Completed(t) ==
    /\ appState.processingResults = t
    /\ ~appState.isProcessing
    /\ appState.currentStep = 4

\* the completion timer of the answer to request i is set
TimerSet(i) == \E t \in timers : t.of = i

\* the completion timer of request i runs
TimerOf(i) == \E t \in timers : t.of = i /\ TimerFires(t)

\* a timer that has been set runs after its delay unless the document goes
FairSpec == Spec /\ \A i \in 1..MaxReq : WF_vars(TimerOf(i))

C9_SuccessEventuallyCompletes ==
    \A t \in AllResults : (t \in timers) ~> Completed(t)

C9_SuccessCompletesUnlessUnloaded ==
    /\ \A i \in 1..MaxReq : TimerSet(i) ~> ~TimerSet(i)
    /\ [][\A t \in timers : t \notin timers' => (Completed(t)' \/ IsLoad)]_vars

\* a completion callback has run and the store holds its results
C9_CompletedSome == \E t \in AllResults : Completed(t) /\ timers = {}

(***************************************************************************)
(* C10.  At most one processing request is in flight at any time.          *)
(***************************************************************************)
C10_OneRequestInFlight == Cardinality(requests) <= 1

(***************************************************************************)
(* The Upload page on its own, with two documents to choose from: the      *)
(* steps of UploadPage, the loads and history traversals that unmount it   *)
(* and the reset of the header.                                            *)
(***************************************************************************)
UploadFiles == {"a.pdf", "b.pdf"}

\* rejections of the upload request: a timeout, an HTTP error with a detail
\* and a network error (no response, no detail)
UploadErrors == AxiosErrors \cup {Err("ERR_NETWORK", 0, "", "", "Network Error")}

UploadNext ==
    \/ \E p \in Paths : Load(p)
    \/ \E i \in 1..MaxHist : BrowserGo(i)
    \/ ResetSession
    \/ \E f \in UploadFiles : ChooseFile(f)
    \/ \E f \in UploadFiles : DropFile(f)
    \/ \E u \in uploads : UploadSucceeds(u)
    \/ \E u \in uploads, e \in UploadErrors : UploadFails(u, e)
    \/ UploadDifferentFile
    \/ ContinueToConfigure

UploadSpec == Init /\ [][UploadNext]_vars

\* POST /api/upload of u is answered, or rejected at the latest by its
\* timeout of 30 s
UploadAnswered(u) ==
    \/ UploadSucceeds(u)
    \/ \E e \in UploadErrors : UploadFails(u, e)

AllUploads == {[file |-> f, live |-> l] : f \in UploadFiles, l \in BOOLEAN}

FairUploadSpec == UploadSpec /\ \A u \in AllUploads : WF_vars(UploadAnswered(u))

(***************************************************************************)
(* C11.  At most one upload request is in flight at any time: while        *)
(* isUploading is true no second upload can be started, from the file      *)
(* picker or from a drop.                                                  *)
(***************************************************************************)
C11_OneUploadInFlight == Cardinality(uploads) <= 1

(***************************************************************************)
(* C12.  Every started upload terminates with the loading flag cleared:    *)
(* once isUploading is true it is eventually false, whether the request    *)
(* succeeds, fails or times out.                                           *)
(***************************************************************************)
C12_UploadFlagCleared == up.isUploading ~> ~up.isUploading

\* an upload has failed on the mounted page and the flag is cleared
C12_FailedUploadCleared ==
    /\ Page = "upload"
    /\ up.uploadError # NullErr
    /\ ~up.isUploading
    /\ uploads = {}

(***************************************************************************)
(* C13.  The persisted copy mirrors the store: in every settled state the  *)
(* entry 'scribbly-state' of local storage is the serialization of the     *)
(* current store state.                                                    *)
(***************************************************************************)
C13_StorageMirrorsStore == storage = Stringify(appState)

\* a session with a file and a configuration has been written
C13_SessionPersisted ==
    /\ appState.fileData # NULL
    /\ appState.studyConfig # NULL
    /\ storage = Stringify(appState)
    /\ storage # Stringify(InitialState)

(***************************************************************************)
(* C14.  Within one processing attempt the phase indicator moves forward   *)
(* through extracting, analyzing, generating, finalizing one phase at a    *)
(* time, without skipping or going back, and returns to 'ready' only when  *)
(* the attempt fails.                                                      *)
(***************************************************************************)
AttemptFails == \E r \in requests, e \in ProcessFailures : ProcessFails(r, e)

C14_PhasesInOrder ==
    [][(proc'.step # proc.step /\ Page' = "processing" /\ ~IsLoad)
          => \/ PhaseIndex(proc'.step) = PhaseIndex(proc.step) + 1
             \/ StartProcessing /\ PhaseIndex(proc'.step) = 1
             \/ AttemptFails /\ proc'.step = "ready"]_vars

(***************************************************************************)
(* C15.  The progress percentage is always within 0..100, the values set   *)
(* from upload-progress events lie in 25..50 and do not decrease with the  *)
(* loaded byte count, and while an attempt of the page is under way (its   *)
(* request is outstanding before and after the step) the percentage never  *)
(* decreases.                                                              *)
(***************************************************************************)
\* the value onUploadProgress sets: 25 + Math.round(uploadProgress * 0.25)
UploadProgressValue(loaded, total) ==
    25 + Round(Round(loaded * 100, total), 4)

\* progressEvent.total of the requests observed
ProgressTotals == {3, 8}

AttemptContinues ==
    \E r \in requests : r.live /\ \E q \in requests' : q.id = r.id

C15_ProgressMonotone ==
    [][/\ proc'.progress \in 0..100
       /\ \A total \in ProgressTotals : \A loaded \in 1..total :
             /\ UploadProgressValue(loaded, total) \in 25..50
             /\ UploadProgressValue(loaded, total)
                   >= UploadProgressValue(loaded - 1, total)
       /\ (AttemptContinues /\ Page' = "processing")
             => proc'.progress >= proc.progress]_vars

(***************************************************************************)
(* C16.  An answer of the processing endpoint whose status is not          *)
(* 'success' is handled as a failure: no completion is scheduled for it,   *)
(* processingResults and currentStep keep their values, and the error text *)
(* is the answer's error field, or 'Processing failed' without one.        *)
(***************************************************************************)
ErrorText(x) == IF x = "" THEN "Processing failed" ELSE x

C16_NotSuccessIsFailure ==
    [][\A r \in requests, x \in ResponseErrors :
          ProcessFails(r, NotSuccess(x)) =>
            /\ timers' = timers
            /\ appState'.processingResults = appState.processingResults
            /\ appState'.currentStep = appState.currentStep
            /\ ProcessingErrorMessage(NotSuccess(x)) = ErrorText(x)
            /\ r.live => proc'.error = ErrorText(x)]_vars

\* an answer without 'success' and without an error field has been handled
C16_FailedWithoutErrorField ==
    /\ Page = "processing"
    /\ proc.error = "Processing failed"
    /\ proc.step = "ready"

(***************************************************************************)
(* C17.  Every flashcard has exactly one progress tag among unseen,        *)
(* learning, mastered: all cards start as unseen, rating the current card  *)
(* 'again' or 'hard' tags it learning, 'good' or 'easy' tags it mastered,  *)
(* and a rating changes the tag of no other card.                          *)
(***************************************************************************)
Tags == {"unseen", "learning", "mastered"}

\* the cards of the deck the Study page shows
Deck == 1..appState.processingResults.flashcards

\* StudyPage is mounted by this step
StudyMounts == Page' = "study" /\ (Page # "study" \/ IsLoad \/ hist' # hist)

C17_OneTagPerCard ==
    [][/\ (Page' = "study" /\ hasFlashcards(appState'.processingResults))
             => study'.progress \in [Deck' -> Tags]
       /\ (StudyMounts /\ hasFlashcards(appState'.processingResults))
             => \A c \in Deck' : study'.progress[c] = "unseen"
       /\ \A a \in RateActions :
             handleCardAction(a) =>
               \A c \in Deck :
                  study'.progress[c] =
                     IF c # study.index + 1 THEN study.progress[c]
                     ELSE IF a \in {"again", "hard"} THEN "learning"
                     ELSE "mastered"]_vars

\* one card has been rated 'learning' and the other 'mastered'
C17_BothRated ==
    /\ Page = "study"
    /\ study.progress = <<"learning", "mastered">>

(***************************************************************************)
(* C18.  The Study stage is rendered only when processingResults is        *)
(* non-null, its flashcard view is entered only when the results contain a *)
(* flashcard, its summary view only when they contain a summary, and the   *)
(* page never renders nothing.                                             *)
(***************************************************************************)
C18_StudyRendersAView ==
    Page = "study" =>
      /\ appState.processingResults # NULL
      /\ study.view = "flashcards" => hasFlashcards(appState.processingResults)
      /\ study.view = "summary" => hasSummary(appState.processingResults)
      /\ StudyRender # "nothing"

(***************************************************************************)
(* C19.  In every state of the Study stage the progress statistics         *)
(* partition the deck: mastered + learning + unseen = total, each count is *)
(* non-negative and unseen is the number of cards tagged unseen.           *)
(***************************************************************************)
\* Object.values(studyProgress).filter(status => status === tag).length
CountTag(tag) ==
    Cardinality({c \in DOMAIN study.progress : study.progress[c] = tag})

getProgressStats ==
    LET total == IF hasFlashcards(appState.processingResults)
                 THEN appState.processingResults.flashcards ELSE 0
        mastered == CountTag("mastered")
        learning == CountTag("learning")
    IN  [total |-> total, mastered |-> mastered, learning |-> learning,
         unseen |-> total - mastered - learning]

StatsPartition ==
    LET g == getProgressStats
    IN  /\ g.mastered + g.learning + g.unseen = g.total
        /\ g.mastered >= 0 /\ g.learning >= 0 /\ g.unseen >= 0
        /\ g.unseen = Cardinality({c \in Deck : c \in DOMAIN study.progress
                                       /\ study.progress[c] = "unseen"})

StatsShownPartitionDeck ==
    (Page = "study" /\ hasFlashcards(appState.processingResults))
       => StatsPartition

(***************************************************************************)
(* The Configure page on its own: the page is open for an uploaded file of *)
(* any processing complexity, the user changes the form, submits it,       *)
(* uses the header and moves in the history.                               *)
(***************************************************************************)
Complexities == {"low", "medium", "high"}

\* fileData as handleFileUpload builds it, with the complexity of the answer
ConfigureFileData(complexity) ==
    [file |-> "a.pdf",
     metadata |-> [filename |-> "a.pdf", processingComplexity |-> complexity]]

ConfigInit ==
    /\ \E c \in Complexities :
          appState = updateFileData(InitialState, ConfigureFileData(c))
    /\ storage = SaveEffect(appState)
    /\ strict = FALSE
    /\ hist = <<"/", "/configure">>
    /\ idx = 2
    /\ proc = FreshProc
    /\ up = FreshUp
    /\ requests = {}
    /\ timers = {}
    /\ uploads = {}
    /\ nextReq = 1
    /\ study = FreshStudy
    /\ form = FreshForm(NULL)
    /\ selected = NoFile

ConfigNext ==
    \/ \E m \in StudyModes : setStudyMode(m)
    \/ \E c \in FlashcardCounts : setFlashcardCount(c)
    \/ \E f \in DifficultyFocuses : setDifficultyFocus(f)
    \/ \E m \in StudyModes, c \in FlashcardCounts, f \in DifficultyFocuses :
          ConfigSubmit(m, c, f)
    \/ \E k \in HeaderSteps : GoToStep(k)
    \/ \E i \in 1..MaxHist : BrowserGo(i)

ConfigSpec == ConfigInit /\ [][ConfigNext]_vars

(***************************************************************************)
(* C20.  The estimated processing time in seconds is                       *)
(* round(base * modeFactor * countFactor): base is 180, 120 or 90 for      *)
(* high, medium or low complexity, modeFactor is 1.5 for mode 'both' and 1 *)
(* otherwise, countFactor is 1.3 for a count above 20 and 1 otherwise.     *)
(***************************************************************************)
\* the estimate the Configure page displays
Estimate ==
    getEstimatedTime(appState.fileData.metadata.processingComplexity,
                     form.studyMode, form.flashcardCount)

\* base * modeFactor * countFactor of the claim, in hundredths
ClaimedProduct ==
    LET c == appState.fileData.metadata.processingComplexity
    IN  (CASE c = "high" -> 180 [] c = "medium" -> 120 [] c = "low" -> 90)
        * (IF form.studyMode = "both" THEN 15 ELSE 10)
        * (IF form.flashcardCount > 20 THEN 13 ELSE 10)

\* v is the product rounded to the nearest integer, halves upwards
C20_EstimateIsRoundedProduct ==
    Page = "configure" =>
      /\ ClaimedProduct - 50 < 100 * Estimate
      /\ 100 * Estimate <= ClaimedProduct + 50

\* a low-complexity file, mode 'both', 25 cards: 90 * 1.5 * 1.3 = 175.5
C20_HalfRoundedUp ==
    /\ Page = "configure"
    /\ appState.fileData.metadata.processingComplexity = "low"
    /\ form.studyMode = "both"
    /\ form.flashcardCount = 25
    /\ Estimate = 176

(***************************************************************************)
(* C21.  The wizard has four steps: in every reachable state currentStep   *)
(* is one of 1, 2, 3, 4, whatever sequence of upload, configure,           *)
(* processing, goToStep, reset and reload operations led to it; the        *)
(* persisted copy holds such a step too.                                   *)
(***************************************************************************)
C21_StepInRange ==
    /\ appState.currentStep \in 1..4
    /\ storage # NoEntry => Parse(storage).currentStep \in 1..4

\* the last step has been reached and a file is replaced from there
C21_UploadAtLastStep ==
    /\ appState.processingResults # NULL
    /\ appState.currentStep = 2
    /\ Page = "upload"

(***************************************************************************)
(* The Processing page on its own, with every kind of failure of the       *)
(* request: the page is open for an uploaded and configured file; the user *)
(* starts and retries, the request fails or succeeds, the user resets,     *)
(* reloads and moves in the history.                                       *)
(***************************************************************************)
HttpStatuses == {400, 413, 422, 500}
Details == {"", "bad mode"}

\* what axios.post rejects with: a timeout, a network error (neither has a
\* response), an HTTP error with or without detail and error in its body
RequestErrors ==
    { Err("ECONNABORTED", 0, "", "", "timeout exceeded"),
      Err("ERR_NETWORK", 0, "", "", "Network Error") }
    \cup { Err("ERR_BAD_RESPONSE", s, d, x, "Request failed") :
              s \in HttpStatuses, d \in Details, x \in ResponseErrors }

\* what the catch of handleStartProcessing is handed
CaughtErrors == RequestErrors \cup {NotSuccess(x) : x \in ResponseErrors}

ProcessingInit ==
    /\ appState = updateStudyConfig(
                      updateFileData(InitialState, UploadedFileData("a.pdf")),
                      FormConfig("both", 15, "mixed"))
    /\ storage = SaveEffect(appState)
    /\ strict = FALSE
    /\ hist = <<"/", "/processing">>
    /\ idx = 2
    /\ proc = FreshProc
    /\ up = FreshUp
    /\ requests = {}
    /\ timers = {}
    /\ uploads = {}
    /\ nextReq = 1
    /\ study = FreshStudy
    /\ form = FreshForm(NULL)
    /\ selected = NoFile

ProcessingNext ==
    \/ StartProcessing
    \/ \E r \in requests, e \in CaughtErrors : ProcessFails(r, e)
    \/ \E r \in requests, a \in SuccessAnswers : ProcessSucceeds(r, a[1], a[2])
    \/ \E t \in timers : TimerFires(t)
    \/ \E i \in 1..MaxHist : BrowserGo(i)
    \/ HistoryBack
    \/ ResetSession
    \/ \E p \in Paths : Load(p)

ProcessingSpec == ProcessingInit /\ [][ProcessingNext]_vars

(***************************************************************************)
(* C22.  The message surfaced for a failed processing request is chosen by *)
(* fixed priority: a timeout (code ECONNABORTED) gives the timeout         *)
(* message; otherwise HTTP status 413, 422 or 500 gives its fixed message; *)
(* otherwise the response's detail field, then its error field, then the   *)
(* error's own message is used; the generic 'Processing failed. Please try *)
(* again.' is used only when none of these applies.                        *)
(***************************************************************************)
\* the first text of a sequence that is not empty, or the last resort
RECURSIVE FirstText(_, _)
FirstText(texts, lastResort) ==
    IF texts = << >> THEN lastResort
    ELSE IF Head(texts) # "" THEN Head(texts)
    ELSE FirstText(Tail(texts), lastResort)

StatusMessage(status) ==
    CASE status = 413 -> "File too large. Please try a smaller file."
      [] status = 422 -> "File format not supported or corrupted."
      [] status = 500 ->
            "Server error. Our AI services may be temporarily unavailable."

PriorityMessage(e) ==
    CASE e.code = "ECONNABORTED" ->
            "Processing timed out. Your file may be too large or complex."
      [] e.code # "ECONNABORTED" /\ e.status \in {413, 422, 500} ->
            StatusMessage(e.status)
      [] OTHER ->
            FirstText(<<e.detail, e.error, e.message>>,
                      "Processing failed. Please try again.")

\* every value the catch can be handed as far as it reads it: any code, any
\* status or no response, with and without detail, error and message
CatchInputs ==
    { Err(c, s, d, x, m) :
        c \in {"", "ECONNABORTED", "ERR_BAD_RESPONSE"},
        s \in {0} \cup HttpStatuses, d \in Details, x \in ResponseErrors,
        m \in {"", "Request failed"} }

C22_MessageByPriority ==
    [][/\ \A r \in requests, e \in CaughtErrors :
             (ProcessFails(r, e) /\ r.live) => proc'.error = PriorityMessage(e)
       /\ \A e \in CatchInputs : ProcessingErrorMessage(e) = PriorityMessage(e)]_vars

\* a request has failed with status 500 (its body has a detail or not) and
\* the page shows the fixed message of the status
C22_ServerErrorShown ==
    /\ Page = "processing"
    /\ proc.step = "ready"
    /\ proc.error = StatusMessage(500)

(***************************************************************************)
(* C23.  In every reachable state, if currentStep >= 2 then fileData is    *)
(* non-null, and if currentStep >= 3 then studyConfig is non-null: the     *)
(* step counter never passes a stage whose data is missing from the store. *)
(***************************************************************************)
C23_StepHasItsData ==
    /\ appState.currentStep >= 2 => appState.fileData # NULL
    /\ appState.currentStep >= 3 => appState.studyConfig # NULL

(***************************************************************************)
(* C24.  A reset is not undone by an earlier request: after resetSession   *)
(* the store stays at currentStep 1 with fileData, studyConfig and         *)
(* processingResults all null until the user completes a new upload, even  *)
(* when a processing request started before the reset completes after it.  *)
(***************************************************************************)
\* the store as resetSession leaves it
Cleared ==
    /\ appState.currentStep = 1
    /\ appState.fileData = NULL
    /\ appState.studyConfig = NULL
    /\ appState.processingResults = NULL

C24_ResetNotUndone ==
    [][(Cleared /\ ~Cleared') => \E u \in uploads : UploadSucceeds(u)]_vars

(***************************************************************************)
(* C25.  resetSession removes the persisted session: once a reset has      *)
(* settled, no entry remains under the local-storage key 'scribbly-state'. *)
(***************************************************************************)
C25_ResetRemovesEntry == [][ResetSession => storage' = NoEntry]_vars

(***************************************************************************)
(* C26.  In every reachable state, if currentStep is 4 then                *)
(* processingResults is non-null.                                          *)
(***************************************************************************)
C26_LastStepHasResults ==
    appState.currentStep = 4 => appState.processingResults # NULL

\* a completion that arrived after a reset: step 4 with results, no file
C26_CompletedAfterReset ==
    /\ appState.currentStep = 4
    /\ appState.processingResults # NULL
    /\ appState.fileData = NULL

(***************************************************************************)
(* C27.  When the user selects several files in succession, the file       *)
(* stored in the session once all uploads have finished is the most        *)
(* recently selected one, whatever the order in which the upload responses *)
(* arrive: when the most recently selected file has been stored, the       *)
(* answer to an earlier upload does not replace it.                        *)
(***************************************************************************)
\* the file the session holds
StoredFile ==
    IF appState.fileData = NULL THEN NoFile ELSE appState.fileData.file

C27_LastSelectedStored ==
    [][\A u \in uploads :
          (UploadSucceeds(u) /\ uploads' = {} /\ StoredFile = selected)
             => StoredFile' = selected]_vars

(***************************************************************************)
(* C28.  A failed upload leaves the session store unchanged: when the      *)
(* upload request fails or times out, onFileUploaded is not called,        *)
(* fileData and currentStep keep their previous values, and uploadError is *)
(* set to the server's detail text if present, else the timeout message if *)
(* the request timed out, else the generic message.                        *)
(***************************************************************************)
ClaimedUploadError(e) ==
    FirstText(<<e.detail,
                IF e.code = "ECONNABORTED"
                THEN "Upload timed out. Please try a smaller file." ELSE "">>,
              "Upload failed. Please try again.")

C28_FailedUploadKeepsStore ==
    [][/\ \A u \in uploads, e \in UploadErrors :
             UploadFails(u, e) =>
               /\ appState' = appState
               /\ storage' = storage
               /\ u.live => up'.uploadError = ClaimedUploadError(e)
       /\ \A e \in CatchInputs : UploadErrorMessage(e) = ClaimedUploadError(e)]_vars

\* an upload has timed out on the page that started it
C28_UploadTimedOut ==
    /\ Page = "upload"
    /\ ~up.isUploading
    /\ up.uploadError = "Upload timed out. Please try a smaller file."
    /\ appState.fileData = NULL

(***************************************************************************)
(* C29.  Whenever the flashcard view shows the 'Study Session Complete'    *)
(* panel, every card of the deck has been rated: no card is still tagged   *)
(* unseen.                                                                 *)
(***************************************************************************)
\* currentCardIndex >= results.flashcards.length - 1, in the flashcard view
StudyCompleteShown ==
    /\ Page = "study"
    /\ StudyRender = "flashcards"
    /\ study.index >= appState.processingResults.flashcards - 1

C29_CompleteMeansAllRated ==
    StudyCompleteShown =>
      \A c \in DOMAIN study.progress : study.progress[c] # "unseen"

(***************************************************************************)
(* C30.  When the selected study mode is 'summary', the estimated          *)
(* processing time shown does not depend on the flashcard count: any two   *)
(* Configure states with the same file complexity and mode 'summary' show  *)
(* the same estimate, whatever count was selected before switching to      *)
(* summary.                                                                *)
(***************************************************************************)
\* the estimate of the Configure state with the same file and mode in which
\* the count is the one the form starts with
EstimateAtInitialCount ==
    getEstimatedTime(appState.fileData.metadata.processingComplexity,
                     form.studyMode, FreshForm(NULL).flashcardCount)

C30_SummaryEstimateIgnoresCount ==
    (Page = "configure" /\ form.studyMode = "summary")
       => Estimate = EstimateAtInitialCount

(***************************************************************************)
(* The wizard with locations outside its routes: the user also opens a     *)
(* path that only the catch-all route matches.                             *)
(***************************************************************************)
UnknownPaths == {"/other"}
RoutePaths == Paths \cup UnknownPaths

RouteNext ==
    \/ Next
    \/ \E p \in UnknownPaths : Load(p)

RouteSpec == Init /\ [][RouteNext]_vars

(***************************************************************************)
(* C31.  Route resolution terminates: from any requested path and any      *)
(* reachable store state, the chain of redirects (catch-all to '/', '/' to *)
(* the stage route of currentStep, a guarded stage route to '/upload')     *)
(* reaches a rendered page after a bounded number of redirects and never   *)
(* loops.                                                                  *)
(***************************************************************************)
MaxRedirects == 3   \* redirects followed from a requested path
StageRoutes == {"/upload", "/configure", "/processing", "/study"}

\* the paths visited from p, cut off after fuel redirects
RECURSIVE Chain(_, _, _)
Chain(p, st, fuel) ==
    IF RouteTarget(p, st) = Absent \/ fuel = 0 THEN <<p>>
    ELSE <<p>> \o Chain(RouteTarget(p, st), st, fuel - 1)

\* a redirect of one of the three kinds
ListedRedirect(from, to) ==
    \/ from \notin StageRoutes \cup {"/"} /\ to = "/"
    \/ from = "/" /\ to \in StageRoutes
    \/ from \in StageRoutes /\ to = "/upload"

C31_RedirectsTerminate ==
    /\ RouteTarget(path, appState) = Absent
    /\ \A p \in RoutePaths :
          LET c == Chain(p, appState, MaxRedirects + 1)
          IN  /\ RouteTarget(c[Len(c)], appState) = Absent
              /\ Len(c) - 1 <= MaxRedirects
              /\ \A i, j \in 1..Len(c) : c[i] = c[j] => i = j
              /\ \A i \in 1..(Len(c) - 1) : ListedRedirect(c[i], c[i + 1])

\* the store is at step 2 without a file and the location has been resolved
\* through '/' and /configure to /upload; from an unknown path the chain
\* has the three redirects
C31_ThreeRedirects ==
    /\ appState.currentStep = 2
    /\ appState.fileData = NULL
    /\ hist = <<"/", "/configure", "/upload">>
    /\ idx = 3
    /\ Chain("/other", appState, MaxRedirects + 1)
          = <<"/other", "/", "/configure", "/upload">>

(***************************************************************************)
(* C32.  Each store update changes only its own fields: updateFileData     *)
(* changes only fileData and currentStep, updateStudyConfig only           *)
(* studyConfig and currentStep, startProcessing only isProcessing,         *)
(* completeProcessing only processingResults, isProcessing and             *)
(* currentStep, and goToStep only currentStep; all other store fields are  *)
(* left unchanged.                                                         *)
(***************************************************************************)
StoreFields ==
    {"currentStep", "fileData", "studyConfig", "processingResults",
     "isProcessing"}

\* the store fields whose value differs between before and after
Changed(before, after) == {f \in StoreFields : before[f] # after[f]}

\* the steps that call updateFileData: an answered upload and "Upload
\* Different File"
FileDataUpdated ==
    \/ \E u \in uploads : UploadSucceeds(u)
    \/ UploadDifferentFile

C32_UpdatesKeepOtherFields ==
    [][/\ FileDataUpdated
             => Changed(appState, appState') \subseteq {"fileData", "currentStep"}
       /\ (\E c \in FormChoices : ConfigSubmit(c[1], c[2], c[3]))
             => Changed(appState, appState') \subseteq {"studyConfig", "currentStep"}
       /\ StartProcessing
             => Changed(appState, appState') \subseteq {"isProcessing"}
       /\ (\E t \in timers : TimerFires(t))
             => Changed(appState, appState')
                   \subseteq {"processingResults", "isProcessing", "currentStep"}
       /\ (\E k \in HeaderSteps : GoToStep(k))
             => Changed(appState, appState') \subseteq {"currentStep"}]_vars

\* processing has been started again in a session that holds results: the
\* results and the step are those of the completion
C32_StartedWithResults ==
    /\ appState.isProcessing
    /\ appState.processingResults # NULL
    /\ appState.currentStep = 4

(***************************************************************************)
(* C33.  For each processing attempt onProcessingComplete is called at     *)
(* most once, only after the attempt has reached the finalizing phase with *)
(* progress 100, and never for an attempt that set a processing error.     *)
(* An attempt is a request id: its callback is scheduled only by its       *)
(* 'success' answer, which ends the request and shows finalizing / 100 on  *)
(* the page that sent it; a failure ends the request without scheduling;   *)
(* the callback runs only as a scheduled timer, which is then gone; ids    *)
(* are not used again.                                                     *)
(***************************************************************************)
\* the attempts whose request or callback is outstanding
OutstandingIds == {r.id : r \in requests} \cup {t.of : t \in timers}

AttemptsDistinct ==
    /\ \A t1, t2 \in timers : t1.of = t2.of => t1 = t2
    /\ \A r1, r2 \in requests : r1.id = r2.id => r1 = r2
    /\ \A t \in timers, r \in requests : t.of # r.id
    /\ \A i \in OutstandingIds : i < nextReq

C33_CompletionOncePerSuccess ==
    /\ []AttemptsDistinct
    /\ [][/\ \A r \in requests, a \in SuccessAnswers :
                ProcessSucceeds(r, a[1], a[2]) =>
                  /\ timers' = timers \cup {Results(r.id, a[1], a[2])}
                  /\ r \notin requests'
                  /\ r.live => (proc'.step = "finalizing" /\ proc'.progress = 100)
          /\ \A r \in requests, e \in ProcessFailures :
                ProcessFails(r, e) => (timers' = timers /\ r \notin requests')
          /\ \A t \in timers' \ timers :
                \E r \in requests, a \in SuccessAnswers :
                   ProcessSucceeds(r, a[1], a[2]) /\ t.of = r.id
          /\ \A t \in timers : TimerFires(t) => timers' = timers \ {t}
          /\ (\E t \in AllResults : Completed(t)' /\ ~Completed(t))
                => (IsLoad \/ \E t \in timers : TimerFires(t))
          /\ nextReq' >= nextReq]_vars

\* the answer was 'success': the page shows finalizing at 100 and the
\* completion callback of the attempt is scheduled
C33_ScheduledAfterFinalizing ==
    /\ Page = "processing"
    /\ proc.step = "finalizing"
    /\ proc.progress = 100
    /\ \E t \in timers : t.of = nextReq - 1

(***************************************************************************)
(* The Study page with decks of different sizes: the processing endpoint   *)
(* also answers with a single flashcard.                                   *)
(***************************************************************************)
\* 'success' answers with one flashcard: flashcards, summary
SingleCardAnswers == {<<1, TRUE>>}

DeckNext ==
    \/ StudyNext
    \/ \E r \in requests, a \in SingleCardAnswers :
          ProcessSucceeds(r, a[1], a[2])

DeckSpec == Init /\ [][DeckNext]_vars

(***************************************************************************)
(* C34.  Whenever the flashcard view is displayed, currentCardIndex is a   *)
(* valid index into the deck (0 <= currentCardIndex < number of            *)
(* flashcards), after any sequence of ratings, card resets and view        *)
(* switches; rating the last card does not move the index.                 *)
(***************************************************************************)
FlashcardViewShown == Page = "study" /\ StudyRender = "flashcards"

IndexValid ==
    FlashcardViewShown =>
       study.index \in 0..(appState.processingResults.flashcards - 1)

C34_CardIndexValid ==
    /\ []IndexValid
    /\ [][\A a \in RateActions :
             (handleCardAction(a)
                /\ study.index = appState.processingResults.flashcards - 1)
                => study'.index = study.index]_vars

====
